---------------------------- MODULE Spec2Model ----------------------------
(***************************************************************************)
(* Model of the Registry class of Integrate (src/modules/registry.js).     *)
(* A registry is a JavaScript Map from lower-cased names to items, kept    *)
(* in insertion order.  Every public method is one action; the methods     *)
(* themselves are operators on a Map value so that they can be composed    *)
(* the way the code composes them (rename and alias call has, get, add).   *)
(***************************************************************************)
EXTENDS Integers, Sequences, FiniteSets, TLC

(***************************************************************************)
(* JavaScript values.  A string is a sequence of ASCII codes.              *)
(***************************************************************************)
Str(s) == [t |-> "string", s |-> s, n |-> 0]

Num(n) == [t |-> "number", s |-> <<>>, n |-> n]

Bool(b) == [t |-> "boolean", s |-> <<>>, n |-> IF b THEN 1 ELSE 0]

Obj(i) == [t |-> "object", s |-> <<>>, n |-> i]

NULL == [t |-> "null", s |-> <<>>, n |-> 0]

UNDEFINED == [t |-> "undefined", s |-> <<>>, n |-> 0]

\* !x of JavaScript: null, undefined, "", 0 and false are falsy.
Falsy(x) ==
  \/ x.t \in {"null", "undefined"}
  \/ x.t = "string" /\ x.s = <<>>
  \/ x.t = "number" /\ x.n = 0
  \/ x.t = "boolean" /\ x.n = 0

\* Number.prototype.toString for a natural number: its decimal digits.
RECURSIVE Digits(_)
Digits(n) == IF n < 10 THEN <<48 + n>> ELSE Digits(n \div 10) \o <<48 + (n % 10)>>

\* x.toString() throws a TypeError on null and undefined.
CanStringify(x) == x.t \notin {"null", "undefined"}

\* if (typeof name !== "string") name = name.toString();
Stringify(x) == IF x.t = "string" THEN x.s ELSE Digits(x.n)

LowerChar(c) == IF c \in 65..90 THEN c + 32 ELSE c

UpperChar(c) == IF c \in 97..122 THEN c - 32 ELSE c

\* String.prototype.toLowerCase, on ASCII.
toLowerCase(s) == [i \in 1..Len(s) |-> LowerChar(s[i])]

\* String.prototype.toUpperCase, on ASCII.
toUpperCase(s) == [i \in 1..Len(s) |-> UpperChar(s[i])]

\* The key a name is stored and looked up under.
Key(name) == toLowerCase(Stringify(name))

(***************************************************************************)
(* The inputs the operations are called with.                              *)
(***************************************************************************)
\* "", "a", "A", "aB"
StringNames == { Str(<<>>), Str(<<97>>), Str(<<65>>), Str(<<97, 66>>) }

\* Names that are not strings: an absent name (null) and the number 7.
OtherNames == { NULL, Num(7) }

\* The names passed to the methods; they give the keys "a", "ab" and "7".
Names == StringNames \cup OtherNames

\* Two objects, told apart by reference.
Objects == { Obj(1), Obj(2) }

\* Items a caller may pass: objects, absent items, and the falsy number 0.
Items == Objects \cup { NULL, UNDEFINED, Num(0) }

(***************************************************************************)
(* The JavaScript Map held in #content: entries in insertion order.        *)
(***************************************************************************)
MapKeys(m) == { m[i].name : i \in 1..Len(m) }

MapHas(m, k) == k \in MapKeys(m)

MapIndex(m, k) == CHOOSE i \in 1..Len(m) : m[i].name = k

MapGet(m, k) == IF MapHas(m, k) THEN m[MapIndex(m, k)].item ELSE UNDEFINED

\* Map.prototype.set: a new key is appended, an existing key keeps its place.
MapSet(m, k, v) ==
  IF MapHas(m, k)
    THEN [m EXCEPT ![MapIndex(m, k)].item = v]
    ELSE Append(m, [name |-> k, item |-> v])

\* Map.prototype.delete
MapDelete(m, k) == SelectSeq(m, LAMBDA e : e.name # k)

(***************************************************************************)
(* How a call ends: it returns a value or throws an error; either way it   *)
(* leaves a Map behind.                                                    *)
(***************************************************************************)
Return(m, r) == [content |-> m, outcome |-> "return", ret |-> r]

Throw(m, e) == [content |-> m, outcome |-> e, ret |-> UNDEFINED]

\* null.toString(), or a call of a method the class does not define.
TypeError == "TypeError"

\* "Item ... already exists in registry!"
SyntaxError == "SyntaxError: already exists"

\* "Item ... does not exist in registry!"
ReferenceError == "ReferenceError: does not exist"

(***************************************************************************)
(* The methods of Registry.                                                *)
(***************************************************************************)
\* size as it would be if it counted the items, not the names.
sizeOfItems(m) == Return(m, Num(Cardinality({ m[i].item : i \in 1..Len(m) })))

size(m) == Return(m, Num(Len(m)))

\* has as it would be without name.toLowerCase().
hasKeepsCase(m, name) ==
  IF ~CanStringify(name) THEN Throw(m, TypeError)
  ELSE Return(m, Bool(MapHas(m, Stringify(name))))

has(m, name) ==
  IF ~CanStringify(name) THEN Throw(m, TypeError)
  ELSE Return(m, Bool(MapHas(m, toLowerCase(Stringify(name)))))

get(m, name) ==
  IF ~CanStringify(name) THEN Throw(m, TypeError)
  ELSE LET key == toLowerCase(Stringify(name))
       IN  IF has(m, Str(key)).ret = Bool(FALSE)
             THEN Throw(m, ReferenceError)
             ELSE Return(m, MapGet(m, key))

\* add as it would be without name.toLowerCase().
addKeepsCase(m, name, item) ==
  IF Falsy(name) THEN Return(m, UNDEFINED)
  ELSE IF Falsy(item) THEN Return(m, UNDEFINED)
  ELSE LET key == Stringify(name)
       IN  IF MapHas(m, key)
             THEN Throw(m, SyntaxError)
             ELSE Return(MapSet(m, key, item), UNDEFINED)

add(m, name, item) ==
  IF Falsy(name) THEN Return(m, UNDEFINED)
  ELSE IF Falsy(item) THEN Return(m, UNDEFINED)
  ELSE LET key == toLowerCase(Stringify(name))
       IN  IF has(m, Str(key)).ret = Bool(TRUE)
             THEN Throw(m, SyntaxError)
             ELSE Return(MapSet(m, key, item), UNDEFINED)

\* rename as it would be without #content.delete(name).
renameKeepsOld(m, name, newName) ==
  IF ~CanStringify(name) THEN Throw(m, TypeError)
  ELSE LET key == toLowerCase(Stringify(name))
       IN  IF has(m, Str(key)).ret = Bool(FALSE)
             THEN Throw(m, ReferenceError)
             ELSE LET current == get(m, Str(key)).ret
                  IN  add(m, newName, current)

\* rename as it would be if it also removed every other name of the item.
renameDropsSharers(m, name, newName) ==
  IF ~CanStringify(name) THEN Throw(m, TypeError)
  ELSE LET key == toLowerCase(Stringify(name))
       IN  IF has(m, Str(key)).ret = Bool(FALSE)
             THEN Throw(m, ReferenceError)
             ELSE LET current == get(m, Str(key)).ret
                  IN  add(SelectSeq(m, LAMBDA e : e.item # current), newName, current)

rename(m, name, newName) ==
  IF ~CanStringify(name) THEN Throw(m, TypeError)
  ELSE LET key == toLowerCase(Stringify(name))
       IN  IF has(m, Str(key)).ret = Bool(FALSE)
             THEN Throw(m, ReferenceError)
             ELSE LET current == get(m, Str(key)).ret
                  IN  add(MapDelete(m, key), newName, current)

\* alias as it would be if it wrote the entry itself, without add's check.
aliasOverwrites(m, name, as) ==
  IF ~CanStringify(name) THEN Throw(m, TypeError)
  ELSE LET key == toLowerCase(Stringify(name))
       IN  IF has(m, Str(key)).ret = Bool(FALSE)
             THEN Throw(m, ReferenceError)
             ELSE LET current == get(m, Str(key)).ret
                  IN  IF Falsy(as) THEN Return(m, UNDEFINED)
                      ELSE Return(MapSet(m, Key(as), current), UNDEFINED)

\* alias as it would be if it moved the entry instead of adding a second one.
aliasMoves(m, name, as) ==
  IF ~CanStringify(name) THEN Throw(m, TypeError)
  ELSE LET key == toLowerCase(Stringify(name))
       IN  IF has(m, Str(key)).ret = Bool(FALSE)
             THEN Throw(m, ReferenceError)
             ELSE LET current == get(m, Str(key)).ret
                  IN  add(MapDelete(m, key), as, current)

alias(m, name, as) ==
  IF ~CanStringify(name) THEN Throw(m, TypeError)
  ELSE LET key == toLowerCase(Stringify(name))
       IN  IF has(m, Str(key)).ret = Bool(FALSE)
             THEN Throw(m, ReferenceError)
             ELSE LET current == get(m, Str(key)).ret
                  IN  add(m, as, current)

\* Registry defines neither dealias nor aliasesFor: calling one throws.
dealias(m, name) == Throw(m, TypeError)

aliasesFor(m, name) == Throw(m, TypeError)

\* The (item, name) pairs forEach hands to its callback, in order.
forEach(m) == [i \in 1..Len(m) |-> <<m[i].item, m[i].name>>]

\* The items the iterator yields, in order.
iterator(m) == [i \in 1..Len(m) |-> m[i].item]

\* nameOf as it would be if the scan stopped at the first match.
nameOfFirst(m, item) ==
  LET hits == { i \in 1..Len(m) : forEach(m)[i][1] = item }
  IN  IF hits = {} THEN Return(m, NULL)
      ELSE Return(m, Str(forEach(m)[CHOOSE i \in hits : \A j \in hits : i <= j][2]))

\* found is overwritten by every match, so the last match is returned.
nameOf(m, item) ==
  LET hits == { i \in 1..Len(m) : forEach(m)[i][1] = item }
  IN  IF hits = {} THEN Return(m, NULL)
      ELSE Return(m, Str(forEach(m)[CHOOSE i \in hits : \A j \in hits : j <= i][2]))

(***************************************************************************)
(* The construction engine: Registry.create, Registry.construct and the    *)
(* private #construct they share.                                          *)
(*                                                                         *)
(* A constructible object is a JavaScript object; f maps its field names   *)
(* to their values.  A nested object is a reference Obj(r) into a heap of  *)
(* plain objects, each holding one number.                                 *)
(***************************************************************************)
Desc(f) == [t |-> "object", s |-> <<>>, n |-> 0, f |-> f]

\* A class, as stored in a type registry.
Class(i) == [t |-> "function", s |-> <<>>, n |-> i]

\* A function that is not a class: structuredClone cannot copy it.
Function == [t |-> "function", s |-> <<>>, n |-> 9]

\* The own enumerable fields of a value: none for a primitive.
FieldsOf(x) == IF "f" \in DOMAIN x THEN x.f ELSE <<>>

\* object.prop
Field(f, prop) == IF prop \in DOMAIN f THEN f[prop] ELSE UNDEFINED

\* Object, the default of the defaultType parameter.
ObjectClass == Class(0)

\* class Block {}
Block == Class(1)

\* class Entity { health = 100; draw() {} init() {} }
Entity == Class(2)

\* What every object inherits from Object.prototype.
ObjectMethods == {"toString"}

\* The methods an instance of the class has, inherited ones included.
Methods(cls) ==
  IF cls = Entity THEN ObjectMethods \cup {"draw", "init"} ELSE ObjectMethods

\* The fields a fresh instance of the class has.
OwnFields(cls) ==
  IF cls = Entity THEN [k \in {"health"} |-> Num(100)] ELSE <<>>

\* "block", "entity", "Entity", "ghost"
BlockName == Str(<<98, 108, 111, 99, 107>>)

EntityName == Str(<<101, 110, 116, 105, 116, 121>>)

EntityNameCapital == Str(<<69, 110, 116, 105, 116, 121>>)

GhostName == Str(<<103, 104, 111, 115, 116>>)

\* Integrate.types.add("block", class Block {}); ...add("entity", class Entity ...)
TypesInit == add(add(<<>>, BlockName, Block).content, EntityName, Entity).content

\* "Property ... clashes with a class method!"
ClashError == "SyntaxError: clashes with a class method"

\* The outcome of a construction: the type registry it leaves, the heap of
\* nested objects, the instance made (if any) and the steps taken.
Built(reg, heap, outcome, inst, steps) ==
  [content |-> reg, heap |-> heap, outcome |-> outcome, inst |-> inst, steps |-> steps]

NoInstance == [class |-> UNDEFINED, f |-> <<>>]

\* if (!object) return;   as it would be if only null were caught.
IsNoOpForNullOnly(object) == object.t = "null"

\* if (!object) return;
IsNoOp(object) == Falsy(object)

\* object.type ? registry.get(object.type) : defaultType, falling back to
\* defaultType when the type is not registered.
resolveTypeOrDefault(registry, object, defaultType) ==
  IF ~Falsy(Field(FieldsOf(object), "type"))
       /\ get(registry, Field(FieldsOf(object), "type")).outcome = "return"
    THEN get(registry, Field(FieldsOf(object), "type"))
    ELSE Return(registry, defaultType)

\* object.type ? registry.get(object.type) : defaultType
resolveType(registry, object, defaultType) ==
  IF ~Falsy(Field(FieldsOf(object), "type"))
    THEN get(registry, Field(FieldsOf(object), "type"))
    ELSE Return(registry, defaultType)

\* structuredClone throws on an object that holds a function.
Cloneable(object) == \A k \in DOMAIN FieldsOf(object) : FieldsOf(object)[k].t # "function"

\* The nested objects an object refers to.
Refs(f) == { f[k].n : k \in { j \in DOMAIN f : f[j].t = "object" } }

\* The place of r among the references in S, counted from 1.
Rank(r, S) == Cardinality({ x \in S : x <= r })

\* A copy that shares the nested objects with the original.
shallowClone(heap, object) == [heap |-> heap, cloned |-> object]

\* structuredClone(object): every nested object is copied to a new place in
\* the heap, and the copy refers to the new places.
structuredClone(heap, object) ==
  LET f == FieldsOf(object)
      S == Refs(f)
      fresh(r) == Len(heap) + Rank(r, S)
      copies == [i \in 1..Cardinality(S) |-> heap[CHOOSE r \in S : Rank(r, S) = i]]
  IN  [heap |-> heap \o copies,
       cloned |-> [object EXCEPT !.f =
                     [k \in DOMAIN f |-> IF f[k].t = "object" THEN Obj(fresh(f[k].n)) ELSE f[k]]]]

\* try { cloned = structuredClone(object) } catch { cloned = object }
cloneOrShare(heap, object) ==
  IF "f" \notin DOMAIN object THEN [heap |-> heap, cloned |-> object]
  ELSE IF Cloneable(object) THEN structuredClone(heap, object)
  ELSE [heap |-> heap, cloned |-> object]

\* checkForClashingFunctions as it would be if it never threw.
neverClashes(source, methods) == FALSE

\* checkForClashingFunctions(source, target) throws when some field of source
\* is a function-valued property of target.
checkForClashingFunctions(source, methods) ==
  \E prop \in DOMAIN FieldsOf(source) : prop \in methods

\* Object.assign(instantiated, cloned)
assign(fields, cloned) ==
  [k \in DOMAIN fields \cup DOMAIN FieldsOf(cloned) |->
     IF k \in DOMAIN FieldsOf(cloned) THEN FieldsOf(cloned)[k] ELSE fields[k]]

\* instantiated.init, after the merge: an own field hides the method.
InitOf(cls, fields) ==
  IF "init" \in DOMAIN fields THEN fields["init"]
  ELSE IF "init" \in Methods(cls) THEN Function
  ELSE UNDEFINED

\* #construct(object, registry, defaultType)
construct(object, registry, defaultType, heap) ==
  IF IsNoOp(object) THEN Built(registry, heap, "return", NoInstance, <<>>)
  ELSE IF object.t \in {"null", "undefined"}
    THEN Built(registry, heap, TypeError, NoInstance, <<>>)
  ELSE
    LET type == resolveType(registry, object, defaultType)
    IN  IF type.outcome # "return"
          THEN Built(registry, heap, type.outcome, NoInstance, <<"resolve">>)
        ELSE IF type.ret.t # "function"
          THEN Built(registry, heap, TypeError, NoInstance, <<"resolve">>)
        ELSE
          LET cls == type.ret
              c == cloneOrShare(heap, object)
              merged == assign(OwnFields(cls), c.cloned)
              hook == InitOf(cls, merged)
          IN  IF checkForClashingFunctions(c.cloned, Methods(cls))
                THEN Built(registry, heap, ClashError, NoInstance,
                           <<"resolve", "new", "clone", "check">>)
              ELSE IF Falsy(hook)
                THEN Built(registry, c.heap, "return", [class |-> cls, f |-> merged],
                           <<"resolve", "new", "clone", "check", "assign">>)
              ELSE IF hook.t # "function"
                THEN Built(registry, heap, TypeError, NoInstance,
                           <<"resolve", "new", "clone", "check", "assign">>)
              ELSE Built(registry, c.heap, "return", [class |-> cls, f |-> merged],
                         <<"resolve", "new", "clone", "check", "assign", "init">>)

\* defaultType = Object
DefaultType(defaultType) == IF defaultType.t = "undefined" THEN ObjectClass ELSE defaultType

\* Registry.construct(object, defaultType): the registry itself gives the types.
constructIn(m, object, defaultType, heap) ==
  construct(object, m, DefaultType(defaultType), heap)

\* Registry.create(name, registry, defaultType)
create(m, name, registry, defaultType, heap) ==
  IF get(m, name).outcome # "return"
    THEN Built(registry, heap, get(m, name).outcome, NoInstance, <<>>)
    ELSE construct(get(m, name).ret, registry, DefaultType(defaultType), heap)

(***************************************************************************)
(* The mod loader (modloader.js, modcontent.js) and Integrate.construct.   *)
(*                                                                         *)
(* The moddable registries are Registry objects: Reg(i) refers to the i-th *)
(* of them, and `registries` is the Registry that names them.  A mod is a  *)
(* directory of JSON files; getJSONFromFile gives undefined for a file     *)
(* that cannot be imported.                                                *)
(***************************************************************************)
Reg(i) == [t |-> "object", s |-> <<>>, n |-> i]

\* A JSON array.
Array(a) == [t |-> "array", s |-> <<>>, n |-> 0, a |-> a]

\* Array.isArray(x)
IsArray(x) == x.t = "array"

\* typeof x === "object"
TypeofObject(x) == x.t \in {"object", "array", "null"}

\* x == null
IsNullish(x) == x.t \in {"null", "undefined"}

\* x ?? d
Coalesce(x, d) == IF IsNullish(x) THEN d ELSE x

\* String(x), as the + operator applies it.
StringOf(x) ==
  IF x.t = "null" THEN <<110, 117, 108, 108>>
  ELSE IF x.t = "undefined" THEN <<117, 110, 100, 101, 102, 105, 110, 101, 100>>
  ELSE Stringify(x)

\* a + b, one of them a string
Concat(a, b) == Str(StringOf(a) \o StringOf(b))

\* ":"
Colon == Str(<<58>>)

\* "item", "content", "extra", "type"
ItemName == Str(<<105, 116, 101, 109>>)

ContentName == Str(<<99, 111, 110, 116, 101, 110, 116>>)

ExtraName == Str(<<101, 120, 116, 114, 97>>)

\* const requiredContentProperties = ["type"]
requiredContentProperties == <<"type">>

\* The errors of the loader, and the ReferenceError JavaScript raises for a
\* name that is not in scope.
LoadReferenceError == "ReferenceError: empty or not found"

LoadSyntaxError == "SyntaxError: mod is malformed"

NotDefined == "ReferenceError: is not defined"

\* What the loader reports through info().
LoadingFailed == "MOD LOADING FAILED"

LoadingSuccessful == "MOD LOADING SUCCESSFUL"

FullyLoaded == "MOD FULLY LOADED"

\* getJSONFromFile(path): module?.default
getJSONFromFile(files, path) ==
  IF path.t = "string" /\ path.s \in DOMAIN files THEN files[path.s] ELSE UNDEFINED

\* new Content(), filled in by loadContentFile
Content(registry, name, constructible) ==
  [registry |-> registry, name |-> name, constructible |-> constructible]

\* new Mod(): name = "mod", content = []
NewMod == [name |-> Str(<<109, 111, 100>>), content |-> <<>>]

NoMod == [name |-> UNDEFINED, content |-> <<>>]

\* loadContentFile's check as it would be with no required property.
MissingNothing(obj) == FALSE

\* for (let prop of requiredContentProperties) if (obj[prop] == null) throw
MissingRequired(obj) ==
  \E i \in 1..Len(requiredContentProperties) :
    IsNullish(Field(FieldsOf(obj), requiredContentProperties[i]))

\* loadContentFile(path, name, registry): the Content, or the error thrown.
\* The message of the first throw reads definitionPath, which is not in
\* scope there, so what is raised is the ReferenceError for that name.
loadContentFile(files, path, name, registry) ==
  LET obj == getJSONFromFile(files, path)
  IN  IF Falsy(obj) THEN [outcome |-> NotDefined, content |-> Content(registry, name, obj)]
      ELSE IF MissingRequired(obj)
        THEN [outcome |-> LoadSyntaxError, content |-> Content(registry, name, obj)]
      ELSE [outcome |-> "return", content |-> Content(registry, name, obj)]

\* STAGE 1 of loadMod: the error thrown for the manifest, or "return".
CheckManifest(modJSON) ==
  IF Falsy(modJSON) THEN LoadReferenceError
  ELSE IF Falsy(Field(FieldsOf(modJSON), "name")) THEN LoadSyntaxError
  ELSE IF Falsy(Field(FieldsOf(modJSON), "definitions")) THEN LoadSyntaxError
  ELSE "return"

\* The checks of one entry of the definition file.
CheckEntry(entry) ==
  IF ~TypeofObject(entry) THEN LoadSyntaxError
  ELSE IF entry.t = "null" THEN TypeError
  ELSE IF Falsy(Field(FieldsOf(entry), "path")) THEN LoadSyntaxError
  ELSE "return"

\* STAGE 2 of loadMod: the error thrown for the definition file, that of the
\* first bad entry, or "return".
CheckDefinitions(definitions) ==
  IF Falsy(definitions) THEN LoadReferenceError
  ELSE IF ~IsArray(definitions) THEN LoadSyntaxError
  ELSE LET bad == { i \in 1..Len(definitions.a) : CheckEntry(definitions.a[i]) # "return" }
       IN  IF bad = {} THEN "return"
           ELSE CheckEntry(definitions.a[CHOOSE i \in bad : \A j \in bad : i <= j])

\* content.name = mod.name + ":" + content.name, as it would be if the
\* prefix were left out.
prefixDropped(mod, content) == content

\* content.name = mod.name + ":" + content.name
prefixed(mod, content) ==
  [content EXCEPT !.name = Concat(Concat(mod.name, Colon), content.name)]

\* mod.content.forEach((content) => content.implement()): each implement is
\* registries.get(this.registry).add(this.name, this.constructible); the
\* first throw ends the loop.  adds lists the calls of add that were made.
RECURSIVE implementAll(_, _, _, _, _)
implementAll(rs, rcs, content, i, adds) ==
  IF i > Len(content) THEN [regs |-> rcs, outcome |-> "return", adds |-> adds]
  ELSE
    LET found == get(rs, content[i].registry)
    IN  IF found.outcome # "return"
          THEN [regs |-> rcs, outcome |-> found.outcome, adds |-> adds]
        ELSE
          LET added == add(rcs[found.ret.n], content[i].name, content[i].constructible)
              call == [registry |-> found.ret.n, name |-> content[i].name,
                       item |-> content[i].constructible, outcome |-> added.outcome]
          IN  IF added.outcome # "return"
                THEN [regs |-> rcs, outcome |-> added.outcome, adds |-> Append(adds, call)]
                ELSE implementAll(rs, [rcs EXCEPT ![found.ret.n] = added.content],
                                  content, i + 1, Append(adds, call))

\* addMod(mod)
addMod(rs, rcs, flag, mod) ==
  LET named == IF flag THEN [i \in 1..Len(mod.content) |-> prefixed(mod, mod.content[i])]
               ELSE mod.content
      r == implementAll(rs, rcs, named, 1, <<>>)
  IN  [regs |-> r.regs, outcome |-> r.outcome, adds |-> r.adds,
       mod |-> [mod EXCEPT !.content = named]]

\* getFromAnyRegistry as it would be if the last registry with the name won.
getFromLastRegistry(rs, rcs, name) ==
  LET regs_ == iterator(rs)
      hits == { i \in 1..Len(regs_) : has(rcs[regs_[i].n], name).ret = Bool(TRUE) }
  IN  IF hits = {} THEN Throw(rs, NotDefined)
      ELSE get(rcs[regs_[CHOOSE i \in hits : \A j \in hits : i >= j].n], name)

\* getFromAnyRegistry(name): for (let reg of registries) if (reg.has(name))
\* return reg.get(name); after the loop reg is not in scope.
getFromAnyRegistry(rs, rcs, name) ==
  LET regs_ == iterator(rs)
      hits == { i \in 1..Len(regs_) : has(rcs[regs_[i].n], name).ret = Bool(TRUE) }
  IN  IF hits = {} THEN Throw(rs, NotDefined)
      ELSE get(rcs[regs_[CHOOSE i \in hits : \A j \in hits : i <= j].n], name)

\* Integrate.construct(object, defaultType)
integrateConstruct(rs, rcs, tys, object, defaultType, h) ==
  IF object.t = "string"
    THEN LET got == getFromAnyRegistry(rs, rcs, object)
         IN  IF got.outcome # "return"
               THEN Built(tys, h, got.outcome, NoInstance, <<>>)
               ELSE constructIn(tys, got.ret, defaultType, h)
    ELSE constructIn(tys, object, defaultType, h)

(***************************************************************************)
(* State: the registry, and a record of the calls made on it.              *)
(***************************************************************************)
VARIABLES
  content,   \* Registry.#content
  prev,      \* #content as it was when the last call started
  last,      \* the last call: method, arguments, outcome, returned value
  before     \* the call before the last, when it was an alias() that installed a name

\* The construction engine's state: the type registry, a registry of
\* constructible objects, the heap of nested objects, the instances handed to
\* callers, and the last construction call with the state it started from.
VARIABLES types, store, heap, instances, made

regVars == <<content, prev, last, before>>

conVars == <<types, store, heap, instances, made>>

\* The mod loader's state: the Registry of moddable registries, the contents
\* of the Registry objects it refers to, the prefix flag, the calls of
\* Integrate.load and Integrate.add in progress, how many were started, and
\* the last call of Integrate.construct.
VARIABLES registries, regs, prefix, calls, started, found

modVars == <<registries, regs, prefix, calls, started, found>>

vars == <<regVars, conVars, modVars>>

NoArg == UNDEFINED

Call(op, a1, a2, r) ==
  [op |-> op, name |-> a1, arg |-> a2, outcome |-> r.outcome, ret |-> r.ret]

\* No name is stored under the empty key, so this stands for "no alias() call".
NoAlias == [alias |-> <<>>, target |-> <<>>]

\* The last call, seen from the next one.
Installed ==
  IF last.op = "alias" /\ last.outcome = "return" /\ Len(content) > Len(prev)
    THEN [alias |-> Key(last.arg), target |-> Key(last.name)]
    ELSE NoAlias

Do(op, a1, a2, r) ==
  /\ content' = r.content
  /\ prev' = content
  /\ last' = Call(op, a1, a2, r)
  /\ before' = Installed
  /\ UNCHANGED <<conVars, modVars>>

InitRegistry ==
  /\ content = <<>>
  /\ prev = <<>>
  /\ last = Call("new", NoArg, NoArg, Return(<<>>, UNDEFINED))
  /\ before = NoAlias

Add == \E name \in Names, item \in Items : Do("add", name, item, add(content, name, item))

Has == \E name \in Names : Do("has", name, NoArg, has(content, name))

Get == \E name \in Names : Do("get", name, NoArg, get(content, name))

Rename ==
  \E name \in Names, newName \in Names :
    Do("rename", name, newName, rename(content, name, newName))

Alias ==
  \E name \in Names, as \in Names : Do("alias", name, as, alias(content, name, as))

NameOf == \E item \in Items : Do("nameOf", item, NoArg, nameOf(content, item))

Size == Do("size", NoArg, NoArg, size(content))

ForEach == Do("forEach", NoArg, NoArg, Return(content, UNDEFINED))

\* The constructible objects of the model.  The first is cloneable and has a
\* nested object; the second holds a function, so structuredClone fails on it.
BlockDesc ==
  Desc([k \in {"type", "width", "nested"} |->
          CASE k = "type" -> BlockName [] k = "width" -> Num(20) [] OTHER -> Obj(1)])

EntityDesc ==
  Desc([k \in {"type", "nested", "fn"} |->
          CASE k = "type" -> EntityNameCapital [] k = "nested" -> Obj(2) [] OTHER -> Function])

\* registry.add("a", BlockDesc); registry.add("ab", EntityDesc)
StoreInit == add(add(<<>>, Str(<<97>>), BlockDesc).content, Str(<<97, 98>>), EntityDesc).content

\* The nested objects of the two stored descriptors.
HeapInit == <<5, 5>>

\* Objects passed to construct directly.
Descriptors ==
  { BlockDesc, EntityDesc,
    Desc([k \in {"type", "draw"} |-> IF k = "type" THEN EntityName ELSE Num(1)]),
    Desc([k \in {"type", "health"} |-> IF k = "type" THEN EntityName ELSE Num(200)]),
    Desc([k \in {"type", "width"} |-> IF k = "type" THEN GhostName ELSE Num(20)]),
    Desc([k \in {"type", "width"} |-> IF k = "type" THEN Str(<<>>) ELSE Num(20)]),
    Desc([k \in {"type", "init"} |-> IF k = "type" THEN BlockName ELSE Num(1)]),
    Desc([k \in {"width"} |-> Num(20)]),
    Desc([k \in {"toString"} |-> Num(1)]),
    NULL, UNDEFINED, Num(0) }

\* The defaultType argument: left out, or a class.
DefaultTypes == { UNDEFINED, Entity }

\* How many instances the callers hold at most.
MaxInstances == 2

NoCall ==
  [op |-> "new", object |-> UNDEFINED, defaultType |-> UNDEFINED, outcome |-> "return",
   ret |-> 0, steps |-> <<>>, types |-> <<>>, store |-> <<>>, heap |-> <<>>,
   instances |-> <<>>]

InitConstruct ==
  /\ types = TypesInit
  /\ store = StoreInit
  /\ heap = HeapInit
  /\ instances = <<>>
  /\ made = NoCall

\* The files of a mod directory: the definition file "d" and the content
\* files "1" and "2".  A file that cannot be imported reads as undefined.
Files(definitions, f1, f2) ==
  [p \in {<<100>>, <<49>>, <<50>>} |->
     IF p = <<100>> THEN definitions ELSE IF p = <<49>> THEN f1 ELSE f2]

Dir(manifest, files) == [manifest |-> manifest, files |-> files]

\* mod.json: { "name": ..., "definitions": "d" }
Manifest(name) == Desc([name |-> name, definitions |-> Str(<<100>>)])

\* The content files of the model.
EntityFile == Desc([type |-> EntityName, health |-> Num(200)])

BlockFile == Desc([type |-> BlockName, width |-> Num(20)])

UntypedFile == Desc([width |-> Num(20)])

\* Entries of a definition file: { "path", "name", "registry" }, the last two
\* optional.
Entry(path, name, registry) == Desc([path |-> path, name |-> name, registry |-> registry])

EntryOfPath(path) == Desc([path |-> path])

EntryA == Entry(Str(<<49>>), Str(<<97>>), ContentName)

EntryAB == Entry(Str(<<50>>), Str(<<97, 98>>), ExtraName)

\* Mod "m": "a" for the registry "content", "ab" for the registry "extra".
ModM == Dir(Manifest(Str(<<109>>)), Files(Array(<<EntryA, EntryAB>>), EntityFile, BlockFile))

\* Mod "n": an entry with only a path, and "A" with no registry.
ModN ==
  Dir(Manifest(Str(<<110>>)),
      Files(Array(<<EntryOfPath(Str(<<49>>)),
                    Desc([path |-> Str(<<50>>), name |-> Str(<<65>>)])>>),
            BlockFile, EntityFile))

\* Mod "m" with one thing wrong, and a mod with no content.
BrokenMods ==
  { Dir(UNDEFINED, ModM.files),
    Dir(Desc([definitions |-> Str(<<100>>)]), ModM.files),
    Dir(Desc([name |-> Str(<<109>>)]), ModM.files),
    Dir(ModM.manifest, Files(UNDEFINED, EntityFile, BlockFile)),
    Dir(ModM.manifest, Files(EntryA, EntityFile, BlockFile)),
    Dir(ModM.manifest, Files(Array(<<EntryA, Num(7)>>), EntityFile, BlockFile)),
    Dir(ModM.manifest, Files(Array(<<EntryA, NULL>>), EntityFile, BlockFile)),
    Dir(ModM.manifest, Files(Array(<<EntryA, Desc([name |-> Str(<<97, 98>>)])>>),
                             EntityFile, BlockFile)),
    Dir(ModM.manifest, Files(Array(<<EntryA, EntryAB>>), EntityFile, UNDEFINED)),
    Dir(ModM.manifest, Files(Array(<<EntryA, EntryAB>>), EntityFile, UntypedFile)),
    Dir(ModM.manifest, Files(Array(<<>>), EntityFile, BlockFile)) }

Mods == {ModM, ModN} \cup BrokenMods

\* The callers of Integrate.load and Integrate.add.
Callers == {1, 2}

\* How many loads are started at most.
MaxCalls == 2

Idle ==
  [pc |-> "idle", op |-> "none", dir |-> Dir(UNDEFINED, <<>>), mod |-> NoMod,
   entries |-> <<>>, stages |-> <<>>, outcome |-> "none", said |-> <<>>,
   returned |-> NoMod, regs |-> <<>>, registries |-> <<>>, flag |-> FALSE, adds |-> <<>>,
   at |-> <<>>]

NotFound ==
  [object |-> UNDEFINED, defaultType |-> UNDEFINED, outcome |-> "none", inst |-> NoInstance,
   registries |-> <<>>, regs |-> <<>>]

\* let prefix = false; two Registry objects of the program, the second with
\* content of its own; no moddable registry named yet.
InitMod ==
  /\ registries = <<>>
  /\ regs = << <<>>, StoreInit >>
  /\ prefix = FALSE
  /\ calls = [c \in Callers |-> Idle]
  /\ started = 0
  /\ found = NotFound

Init == InitRegistry /\ InitConstruct /\ InitMod

\* Integrate.addModdableRegistry(reg, name); a throw of add changes nothing.
AddModdableRegistry ==
  \E i \in 1..Len(regs), name \in {ContentName, ExtraName} :
    /\ registries' = add(registries, name, Reg(i)).content
    /\ UNCHANGED <<regs, prefix, calls, started, found, regVars, conVars>>

\* Integrate.setPrefix(value): prefix = !!value
SetPrefix ==
  \E value \in {Bool(TRUE), Bool(FALSE), Num(0), Str(<<97>>)} :
    /\ prefix' = ~Falsy(value)
    /\ UNCHANGED <<registries, regs, calls, started, found, regVars, conVars>>

\* The call c becomes r; nothing else of the loader changes.
Step(c, r) ==
  /\ calls' = [calls EXCEPT ![c] = r]
  /\ UNCHANGED <<registries, regs, prefix, found, regVars, conVars>>

\* catch (e) { info("|| MOD LOADING FAILED ||"); throw e; }
Failed(call, e) ==
  [call EXCEPT !.pc = "done", !.outcome = e, !.said = Append(call.said, LoadingFailed)]

\* info("|| MOD LOADING SUCCESSFUL ||"); return mod;  Integrate.add goes on
\* to addMod when the promise resolves.
Loaded(call) ==
  IF call.op = "load"
    THEN [call EXCEPT !.pc = "done", !.outcome = "return", !.returned = call.mod,
                      !.said = Append(call.said, LoadingSuccessful)]
    ELSE [call EXCEPT !.pc = "loaded", !.said = Append(call.said, LoadingSuccessful)]

\* Integrate.load(path) or Integrate.add(path), up to the first await of
\* loadMod: getJSONFromFile(root + "mod.json").
Start(c) ==
  \E op \in {"load", "add"}, dir \in Mods :
    /\ calls[c].pc \in {"idle", "done"}
    /\ started < MaxCalls
    /\ started' = started + 1
    /\ calls' = [calls EXCEPT ![c] =
                   [Idle EXCEPT !.pc = "manifest", !.op = op, !.dir = dir, !.mod = NewMod,
                                !.stages = <<"manifest">>, !.regs = regs]]
    /\ UNCHANGED <<registries, regs, prefix, found, regVars, conVars>>

\* loadMod from mod.json read to the await of the definition file.
ReadManifest(c) ==
  LET call == calls[c]
      modJSON == call.dir.manifest
  IN  /\ call.pc = "manifest"
      /\ UNCHANGED started
      /\ Step(c, IF Falsy(modJSON) THEN Failed(call, CheckManifest(modJSON))
                  ELSE IF CheckManifest(modJSON) # "return"
                    THEN Failed([call EXCEPT !.stages = Append(call.stages, "details")],
                                CheckManifest(modJSON))
                  ELSE [call EXCEPT !.pc = "definitions",
                                    !.stages = call.stages \o <<"details", "definitions">>,
                                    !.mod.name = modJSON.f.name])

\* loadMod from the definition file read to the await of the first content
\* file, or to its end when there is no content.
ReadDefinitions(c) ==
  LET call == calls[c]
      definitions == getJSONFromFile(call.dir.files, call.dir.manifest.f.definitions)
  IN  /\ call.pc = "definitions"
      /\ UNCHANGED started
      /\ Step(c, IF CheckDefinitions(definitions) # "return"
                    THEN Failed(call, CheckDefinitions(definitions))
                  ELSE IF definitions.a = <<>>
                    THEN Loaded([call EXCEPT !.stages = Append(call.stages, "content")])
                  ELSE [call EXCEPT !.pc = "content", !.entries = definitions.a,
                                    !.stages = Append(call.stages, "content")])

\* One turn of the STAGE 3 loop: await loadContentFile(...); mod.content.push.
ReadContent(c) ==
  LET call == calls[c]
      entry == call.entries[Len(call.mod.content) + 1]
      loaded == loadContentFile(call.dir.files, Field(entry.f, "path"),
                                Coalesce(Field(entry.f, "name"), ItemName),
                                Coalesce(Field(entry.f, "registry"), ContentName))
      pushed == [call EXCEPT !.mod.content = Append(call.mod.content, loaded.content)]
  IN  /\ call.pc = "content"
      /\ UNCHANGED started
      /\ Step(c, IF loaded.outcome # "return" THEN Failed(call, loaded.outcome)
                  ELSE IF Len(pushed.mod.content) = Len(call.entries) THEN Loaded(pushed)
                  ELSE pushed)

\* Integrate.add after loadMod as it would be if addMod awaited each
\* implement(): one content item per turn, other callers running in between.
InstallAwaiting(c) ==
  LET call == calls[c]
      starting == call.pc = "loaded"
      flag == IF starting THEN prefix ELSE call.flag
      named == IF starting /\ flag
                 THEN [i \in 1..Len(call.mod.content) |-> prefixed(call.mod, call.mod.content[i])]
                 ELSE call.mod.content
      k == Len(call.adds)
      upto == IF k + 1 < Len(named) THEN k + 1 ELSE Len(named)
      r == implementAll(registries, regs, SubSeq(named, 1, upto), k + 1, call.adds)
      finished == r.outcome # "return" \/ upto = Len(named)
  IN  /\ call.pc \in {"loaded", "installing"}
      /\ regs' = r.regs
      /\ calls' = [calls EXCEPT ![c] =
                     [call EXCEPT !.pc = IF finished THEN "done" ELSE "installing",
                                  !.outcome = IF finished THEN r.outcome ELSE call.outcome,
                                  !.mod.content = named, !.flag = flag, !.adds = r.adds,
                                  !.registries = IF starting THEN registries
                                                 ELSE call.registries,
                                  !.at = IF starting THEN regs ELSE call.at,
                                  !.said = IF finished /\ r.outcome = "return"
                                             THEN Append(call.said, FullyLoaded)
                                             ELSE call.said]]
      /\ UNCHANGED <<registries, prefix, started, found, regVars, conVars>>

\* Integrate.add after loadMod: addMod(mod), which has no await.
Install(c) ==
  LET call == calls[c]
      r == addMod(registries, regs, prefix, call.mod)
  IN  /\ call.pc = "loaded"
      /\ regs' = r.regs
      /\ calls' = [calls EXCEPT ![c] =
                     [call EXCEPT !.pc = "done", !.outcome = r.outcome, !.mod = r.mod,
                                  !.flag = prefix, !.adds = r.adds,
                                  !.registries = registries, !.at = regs,
                                  !.said = IF r.outcome = "return"
                                             THEN Append(call.said, FullyLoaded)
                                             ELSE call.said]]
      /\ UNCHANGED <<registries, prefix, started, found, regVars, conVars>>

\* Integrate.construct(object, defaultType) with a registry name or an object.
IntegrateConstruct ==
  \E object \in StringNames \cup {BlockFile, NULL}, defaultType \in DefaultTypes :
    LET r == integrateConstruct(registries, regs, types, object, defaultType, heap)
    IN  /\ found' = [object |-> object, defaultType |-> defaultType, outcome |-> r.outcome,
                      inst |-> r.inst, registries |-> registries, regs |-> regs]
        /\ UNCHANGED <<registries, regs, prefix, calls, started, regVars, conVars>>

\* One caller at a time.
NextMod ==
  \/ AddModdableRegistry
  \/ SetPrefix
  \/ Start(1)
  \/ ReadManifest(1)
  \/ ReadDefinitions(1)
  \/ ReadContent(1)
  \/ Install(1)

SpecMod == Init /\ [][NextMod]_vars

\* The mods two concurrent calls of Integrate.add are given.
ConcurrentMods ==
  { ModM, ModN,
    Dir(ModM.manifest, Files(Array(<<EntryA, EntryAB>>), EntityFile, UntypedFile)) }

\* Integrate.add(path) by a caller that has made no call yet, for a mod the
\* other caller was not given.
AddConcurrently(c) ==
  /\ calls[c].pc = "idle"
  /\ Start(c)
  /\ calls'[c].op = "add"
  /\ calls'[c].dir \in ConcurrentMods
  /\ \A d \in Callers \ {c} : calls[d].dir # calls'[c].dir

\* Two callers of Integrate.add: a step of either at every await.
NextConcurrent ==
  \/ AddModdableRegistry
  \/ SetPrefix
  \/ \E c \in Callers :
       \/ AddConcurrently(c)
       \/ ReadManifest(c)
       \/ ReadDefinitions(c)
       \/ ReadContent(c)
       \/ Install(c)

SpecConcurrent == Init /\ [][NextConcurrent]_vars

\* The program fills a Registry object of its own: reg.add(name, item).
Register ==
  \E i \in 1..Len(regs), name \in StringNames, item \in {BlockFile, EntityFile} :
    /\ regs' = [regs EXCEPT ![i] = add(regs[i], name, item).content]
    /\ UNCHANGED <<registries, prefix, calls, started, found, regVars, conVars>>

\* Integrate.construct over registries the program fills and names.
NextFind == AddModdableRegistry \/ Register \/ IntegrateConstruct

SpecFind == Init /\ [][NextFind]_vars

\* One construction call and what it leaves: the caller keeps the instance.
Make(op, object, defaultType, r) ==
  /\ r.outcome = "return" /\ r.inst # NoInstance => Len(instances) < MaxInstances
  /\ types' = r.content
  /\ UNCHANGED store
  /\ heap' = r.heap
  /\ instances' = IF r.inst # NoInstance THEN Append(instances, r.inst) ELSE instances
  /\ UNCHANGED modVars
  /\ made' = [op |-> op, object |-> object, defaultType |-> defaultType,
               outcome |-> r.outcome,
               ret |-> IF r.inst # NoInstance THEN Len(instances) + 1 ELSE 0,
               steps |-> r.steps, types |-> types, store |-> store, heap |-> heap,
               instances |-> instances]
  /\ UNCHANGED regVars

\* Integrate.types.construct(object, defaultType)
Construct ==
  \E object \in Descriptors, defaultType \in DefaultTypes :
    Make("construct", object, defaultType, constructIn(types, object, defaultType, heap))

\* registry.create(name, Integrate.types, defaultType)
Create ==
  \E name \in Names, defaultType \in DefaultTypes :
    Make("create", name, defaultType, create(store, name, types, defaultType, heap))

\* The caller changes what it was handed: instance.width = 21
SetField ==
  \E i \in 1..Len(instances) :
    /\ instances' =
         [instances EXCEPT ![i].f =
            [k \in DOMAIN instances[i].f \cup {"width"} |->
               IF k = "width" THEN Num(21) ELSE instances[i].f[k]]]
    /\ made' = [NoCall EXCEPT !.op = "setField", !.ret = i, !.types = types,
                 !.store = store, !.heap = heap, !.instances = instances]
    /\ UNCHANGED <<types, store, heap, regVars, modVars>>

\* The caller changes a nested object: instance.nested.x = 6
SetNested ==
  \E i \in 1..Len(instances) :
    /\ "nested" \in DOMAIN instances[i].f
    /\ heap' = [heap EXCEPT ![instances[i].f["nested"].n] = 6]
    /\ made' = [NoCall EXCEPT !.op = "setNested", !.ret = i, !.types = types,
                 !.store = store, !.heap = heap, !.instances = instances]
    /\ UNCHANGED <<types, store, instances, regVars, modVars>>

NextConstruct == Construct \/ Create \/ SetField \/ SetNested

SpecConstruct == Init /\ [][NextConstruct]_vars

Next == Add \/ Has \/ Get \/ Rename \/ Alias \/ NameOf \/ Size \/ ForEach

Spec == Init /\ [][Next]_vars

TypeOK ==
  /\ \A i \in 1..Len(content) : content[i].item \in Objects
  /\ \A i, j \in 1..Len(content) : content[i].name = content[j].name => i = j

(***************************************************************************)
(* Properties of the registry.                                             *)
(***************************************************************************)
\* The last call was method op and it returned normally.
Returned(op) == last.op = op /\ last.outcome = "return"

\* The names that are strings, with their lower-cased and upper-cased forms.
Spellings ==
  StringNames \cup { Str(toLowerCase(n.s)) : n \in StringNames }
              \cup { Str(toUpperCase(n.s)) : n \in StringNames }

C2_DuplicateAddThrows ==
  ( /\ last.op = "add"
    /\ ~Falsy(last.name)
    /\ last.arg.t \notin {"null", "undefined"}
    /\ MapHas(prev, Key(last.name)) )
  => /\ last.outcome = SyntaxError
     /\ content = prev

\* C3: in every state has gives the same answer for a name, its lower-cased
\* form and its upper-cased form, and has("") returns false without throwing.
C3_HasIgnoresCase ==
  /\ \A n \in Spellings :
       /\ has(content, n).outcome = "return"
       /\ has(content, n) = has(content, Str(toLowerCase(n.s)))
       /\ has(content, n) = has(content, Str(toUpperCase(n.s)))
  /\ has(content, Str(<<>>)) = Return(content, Bool(FALSE))

\* C3 witness: has("A") returned true on a registry whose entry was added
\* as "a", and has("AB") is true of an entry stored as "ab".
C3_Witness ==
  /\ Returned("has")
  /\ last.name = Str(<<65>>)
  /\ last.ret = Bool(TRUE)
  /\ has(content, Str(<<65, 66>>)).ret = Bool(TRUE)

\* The last call was alias(n, a) with a name a that add accepts.
AliasCalled == last.op = "alias" /\ ~Falsy(last.arg)

\* C4 as stated: after alias(n, a) has returned, get(a) returns what get(n)
\* returns, dealias(a) returns the lower-cased n, and aliasesFor(n) includes a.
C4_AliasResolves ==
  (AliasCalled /\ last.outcome = "return")
  => /\ get(content, last.arg) = get(content, last.name)
     /\ dealias(content, last.arg) = Return(content, Str(Key(last.name)))
     /\ aliasesFor(content, last.name).outcome = "return"
     /\ Str(Key(last.arg)) \in aliasesFor(content, last.name).ret

\* C4 amended: after alias(n, a) has returned for a non-empty name a, get(a)
\* and get(n) return the same object, and a is one more entry of the registry,
\* appended under its own lower-cased name with the item of n; the entries
\* that were there are as before.  (For an empty or absent a, alias returns
\* and the registry is as before.)
C4_AliasSharesItem ==
  Returned("alias")
  => IF Falsy(last.arg)
       THEN content = prev
       ELSE /\ get(content, last.arg).outcome = "return"
            /\ get(content, last.arg) = get(content, last.name)
            /\ get(content, last.name).ret = get(prev, last.name).ret
            /\ content = Append(prev, [name |-> Key(last.arg),
                                       item |-> MapGet(prev, Key(last.name))])

\* C4 witness: alias("a", "aB") returned and "ab" now holds the object of "a".
C4_Witness ==
  /\ Returned("alias")
  /\ last.name = Str(<<97>>)
  /\ last.arg = Str(<<97, 66>>)
  /\ MapGet(content, <<97, 98>>) = MapGet(content, <<97>>)
  /\ MapGet(content, <<97>>) \in Objects

\* The last call was alias(a, b), made right after an alias(n, a) that
\* installed a.
AliasOfAlias ==
  /\ last.op = "alias"
  /\ before # NoAlias
  /\ CanStringify(last.name)
  /\ Key(last.name) = before.alias

\* C5 as stated: alias(a, b), for a new non-empty name b, on a name a that
\* alias(n, a) has just installed throws the not-found error and registers
\* nothing.
C5_AliasOfAliasThrows ==
  (AliasOfAlias /\ ~Falsy(last.arg) /\ ~MapHas(prev, Key(last.arg)))
  => (last.outcome = ReferenceError /\ content = prev)

\* C5 amended: alias(a, b) on a name a that alias(n, a) has just installed
\* never throws the not-found error, because a is an entry like any other:
\* for a new non-empty name b it returns and appends b with the object of a
\* and n; for a name b that is already in the registry it throws the
\* duplicate-name error and changes nothing; for an empty or absent b it
\* returns and changes nothing.  get(a) reads the entry of a itself.
C5_AliasOfAliasAdds ==
  AliasOfAlias
  => /\ last.outcome # ReferenceError
     /\ MapHas(prev, before.alias) /\ MapHas(prev, before.target)
     /\ MapGet(prev, before.alias) = MapGet(prev, before.target)
     /\ IF Falsy(last.arg)
          THEN last.outcome = "return" /\ content = prev
        ELSE IF MapHas(prev, Key(last.arg))
          THEN last.outcome = SyntaxError /\ content = prev
        ELSE /\ last.outcome = "return"
             /\ content = Append(prev, [name |-> Key(last.arg),
                                        item |-> MapGet(prev, before.alias)])
             /\ get(content, last.arg).ret = get(content, Str(before.target)).ret

\* C5 witness: alias(a, b) returned after alias(n, a), and the registry holds
\* n, a and b with one and the same object.
C5_Witness ==
  /\ AliasOfAlias
  /\ last.outcome = "return"
  /\ Len(content) = 3
  /\ \A i \in 1..3 : content[i].item = content[1].item

\* C6 as stated: alias(n, a) changes neither size nor what forEach and the
\* iterator visit.
C6_AliasKeepsSize ==
  (AliasCalled /\ last.outcome = "return")
  => /\ size(content).ret = size(prev).ret
     /\ forEach(content) = forEach(prev)
     /\ iterator(content) = iterator(prev)

\* C6 amended: size, forEach and the iterator cover every entry of the one
\* table, the names installed by alias included: in every state forEach and
\* the iterator visit size entries, one per name, and alias(n, a) that returns
\* for a non-empty name a raises size by one and appends one visit, the item
\* of n under the name a.  (For an empty or absent a, alias returns and size
\* and the visits are as before.)
C6_AliasCounts ==
  /\ size(content).ret = Num(Cardinality(MapKeys(content)))
  /\ Len(forEach(content)) = size(content).ret.n
  /\ Len(iterator(content)) = size(content).ret.n
  /\ \A i \in 1..Len(content) :
       /\ forEach(content)[i] = <<get(content, Str(content[i].name)).ret, content[i].name>>
       /\ iterator(content)[i] = forEach(content)[i][1]
  /\ (AliasCalled /\ last.outcome = "return")
     => /\ size(content).ret.n = size(prev).ret.n + 1
        /\ forEach(content) =
             Append(forEach(prev), <<get(prev, last.name).ret, Key(last.arg)>>)
        /\ iterator(content) = Append(iterator(prev), get(prev, last.name).ret)
  /\ (Returned("alias") /\ Falsy(last.arg))
     => /\ size(content).ret = size(prev).ret
        /\ forEach(content) = forEach(prev)
        /\ iterator(content) = iterator(prev)

\* C6 witness: alias returned on a registry of one entry, and size is two.
C6_Witness ==
  /\ AliasCalled
  /\ last.outcome = "return"
  /\ size(prev).ret = Num(1)
  /\ size(content).ret = Num(2)
  /\ iterator(content)[1] = iterator(content)[2]

\* The last call was rename(n, n2) and it got past its check that n exists.
RenamePassed == last.op = "rename" /\ last.outcome \notin {TypeError, ReferenceError}

\* The last call was rename(n, n2) with a non-empty name n2, and it returned.
Renamed == Returned("rename") /\ ~Falsy(last.arg)

\* C7 as stated: after rename(n, n2) has returned, get(n) throws the not-found
\* error and get(n2) returns the item n had, for every pair of names n and n2.
C7_RenameMoves ==
  Renamed
  => /\ get(content, last.name).outcome = ReferenceError
     /\ get(content, last.arg) = Return(content, MapGet(prev, Key(last.name)))

\* C7 amended: after rename(n, n2) has returned for a non-empty name n2,
\* get(n2) returns the item n had, and get(n) throws the not-found error when
\* n2 differs from n by more than letter case; when n2 equals n up to letter
\* case, get(n) returns the item too.  (For an empty or absent n2, rename
\* returns with the entry of n removed and nothing stored.)
C7_RenameMovesUnlessSameKey ==
  Returned("rename")
  => /\ MapGet(prev, Key(last.name)) \in Objects
     /\ IF Falsy(last.arg)
          THEN /\ content = MapDelete(prev, Key(last.name))
               /\ get(content, last.name).outcome = ReferenceError
        ELSE IF Key(last.arg) = Key(last.name)
          THEN /\ get(content, last.arg) = Return(content, MapGet(prev, Key(last.name)))
               /\ get(content, last.name) = get(content, last.arg)
        ELSE /\ get(content, last.arg) = Return(content, MapGet(prev, Key(last.name)))
             /\ get(content, last.name).outcome = ReferenceError

\* C7 witness: rename("a", 7) returned; "7" holds what "a" held and "a" is gone.
C7_Witness ==
  /\ Returned("rename")
  /\ last.name = Str(<<97>>)
  /\ last.arg = Num(7)
  /\ MapGet(content, <<55>>) = MapGet(prev, <<97>>)
  /\ ~MapHas(content, <<97>>)

\* The last call was rename(n, n2), made right after an alias(n, a) that
\* installed a.
RenameOfAliased ==
  /\ RenamePassed
  /\ before # NoAlias
  /\ Key(last.name) = before.target

\* C8 as stated: after alias(n, a) and then rename(n, n2) to another name n2,
\* has(a) is false, get(a) throws the not-found error, and get(n2) returns the
\* value.
C8_AliasDangles ==
  (RenameOfAliased /\ Renamed /\ Key(last.arg) # Key(last.name))
  => /\ has(content, Str(before.alias)).ret = Bool(FALSE)
     /\ get(content, Str(before.alias)).outcome = ReferenceError
     /\ get(content, last.arg) = Return(content, MapGet(prev, before.target))

\* C8 amended: rename leaves the names installed by alias alone: after
\* alias(n, a) and then rename(n, n2), whatever rename did, has(a) is true and
\* get(a) returns the value it returned before; and when rename has returned
\* for a name n2, get(n2) returns that same value.
C8_AliasSurvivesRename ==
  RenameOfAliased
  => /\ has(content, Str(before.alias)).ret = Bool(TRUE)
     /\ get(content, Str(before.alias)) = Return(content, MapGet(prev, before.target))
     /\ get(content, Str(before.alias)).ret = get(prev, Str(before.alias)).ret
     /\ Renamed => get(content, last.arg) = get(content, Str(before.alias))

\* C8 witness: alias("a", "aB") and then rename("a", 7): "a" is gone, and
\* "ab" and "7" hold the same object.
C8_Witness ==
  /\ RenameOfAliased
  /\ last.outcome = "return"
  /\ before.alias = <<97, 98>>
  /\ last.arg = Num(7)
  /\ ~MapHas(content, <<97>>)
  /\ MapGet(content, <<97, 98>>) = MapGet(content, <<55>>)

\* C9 as stated: add(name, item) with a null or undefined item throws and
\* leaves the registry unchanged; it never returns normally.
C9_NullItemThrows ==
  (last.op = "add" /\ ~Falsy(last.name) /\ last.arg.t \in {"null", "undefined"})
  => (last.outcome # "return" /\ content = prev)

\* The last call was add, rename or alias with an empty or absent name to
\* store under (for rename and alias, of a name that exists).
EmptyNewName ==
  \/ last.op = "add" /\ Falsy(last.name) /\ ~Falsy(last.arg)
  \/ /\ last.op \in {"rename", "alias"}
     /\ last.outcome \notin {TypeError, ReferenceError}
     /\ Falsy(last.arg)

\* C10 as stated: a mutating call with an empty or absent name to store under
\* throws and leaves the registry unchanged, rather than returning normally.
C10_EmptyNameThrows ==
  EmptyNewName => (last.outcome # "return" /\ content = prev)

\* The positions of the entries of m that hold item.
Holders(m, item) == { i \in 1..Len(m) : m[i].item = item }

\* The last call was nameOf(v), made right after an alias(n, a) that installed
\* a for the item v of n, and no other name holds v.
NameOfAliased ==
  /\ Returned("nameOf")
  /\ before # NoAlias
  /\ last.name = MapGet(content, before.target)
  /\ Cardinality(Holders(content, last.name)) = 2

\* C16 as stated: nameOf(v) returns the key under which v was added, also
\* after an alias of v has been created, and null for an item that is not in
\* the registry.
C16_NameOfKeepsAddedKey ==
  /\ NameOfAliased => last.ret = Str(before.target)
  /\ (Returned("nameOf") /\ Holders(content, last.name) = {}) => last.ret = NULL

\* C16 amended: nameOf(v) always returns; it returns null for an item no entry
\* holds, and otherwise the key of the last entry, in insertion order, that
\* holds v.  That is the key v was added under as long as one entry holds v;
\* after alias(n, a) it is the key of a, not of n.
C16_NameOfGivesLastKey ==
  /\ last.op = "nameOf" => (last.outcome = "return" /\ content = prev)
  /\ (Returned("nameOf") /\ Holders(content, last.name) = {}) => last.ret = NULL
  /\ (Returned("nameOf") /\ Holders(content, last.name) # {})
       => /\ last.ret.t = "string"
          /\ MapHas(content, last.ret.s)
          /\ MapGet(content, last.ret.s) = last.name
          /\ \A i \in Holders(content, last.name) : i <= MapIndex(content, last.ret.s)
  /\ NameOfAliased => last.ret = Str(before.alias)

\* C16 witness: add(n, v), alias(n, a) and then nameOf(v), which returned the
\* key of a.
C16_Witness ==
  /\ NameOfAliased
  /\ last.ret = Str(before.alias)
  /\ before.alias # before.target
  /\ content[1].name = before.target

\* The last call was alias(m, a), made right after an alias(n, a) that
\* installed a, for an entry m that is neither n nor a and holds another item.
AliasAgain ==
  /\ last.op = "alias"
  /\ before # NoAlias
  /\ CanStringify(last.name) /\ CanStringify(last.arg)
  /\ Key(last.arg) = before.alias
  /\ MapHas(prev, Key(last.name))
  /\ Key(last.name) \notin {before.alias, before.target}
  /\ MapGet(prev, Key(last.name)) # MapGet(prev, before.target)

\* C17 as stated: alias(n, a) followed by alias(m, a) with a different entry m
\* returns without error and overwrites: get(a) then returns the value of m.
C17_AliasOverwrites ==
  AliasAgain
  => /\ last.outcome = "return"
     /\ get(content, last.arg).ret = MapGet(prev, Key(last.name))

\* C17 amended: alias checks the alias name through add: alias(n, a) followed
\* by alias(m, a) with a different entry m throws the duplicate-name error and
\* changes nothing, so get(a) still returns the value of n.
C17_AliasChecksName ==
  AliasAgain
  => /\ last.outcome = SyntaxError
     /\ content = prev
     /\ get(content, last.arg).ret = MapGet(prev, before.target)
     /\ get(content, last.arg).ret # get(content, last.name).ret

\* C17 witness: alias(m, a) threw the duplicate-name error on a registry that
\* holds n, a and m.
C17_Witness ==
  /\ AliasAgain
  /\ last.outcome = SyntaxError
  /\ Len(content) = 3

(***************************************************************************)
(* The construction engine, under SpecConstruct.                           *)
(***************************************************************************)
Constructing == made.op \in {"construct", "create"}

\* The object the last call handed to #construct: the argument of construct,
\* or what create found under the name.
Target ==
  IF made.op = "create"
    THEN IF get(made.store, made.object).outcome = "return"
           THEN get(made.store, made.object).ret
           ELSE UNDEFINED
    ELSE made.object

TargetType == Field(FieldsOf(Target), "type")

\* The last call reached the choice of a class, and the class it had to choose.
Resolving == Constructing /\ "f" \in DOMAIN Target

Resolved ==
  IF Falsy(TargetType) THEN DefaultType(made.defaultType)
  ELSE MapGet(made.types, Key(TargetType))

Resolvable == Falsy(TargetType) \/ MapHas(made.types, Key(TargetType))

\* Nothing the engine can see has changed since the last call started.
NothingMade ==
  /\ made.ret = 0
  /\ types = made.types
  /\ store = made.store
  /\ heap = made.heap
  /\ instances = made.instances

\* C11: construct called with a falsy descriptor (null, undefined) returns
\* nothing and raises nothing: no type is looked up, no instance is created,
\* no initializer runs and the type registry is unchanged.
C11_FalsyIsNoOp ==
  made.op = "construct" /\ Falsy(made.object)
  => /\ made.outcome = "return"
     /\ made.steps = <<>>
     /\ NothingMade

C11_Witness ==
  /\ made.op = "construct"
  /\ made.object = UNDEFINED
  /\ made.defaultType = Entity
  /\ Len(instances) = 1

\* C12: when descriptor.type is set (truthy), the instance is of the type
\* stored under that name in the type registry, looked up as Registry.get
\* does; an unregistered name fails with the not-found error whatever the
\* defaultType; when descriptor.type is not set the instance is of defaultType.
C12_TypeResolved ==
  Resolving
  => /\ ~Resolvable => made.outcome = ReferenceError /\ NothingMade
     /\ made.outcome = "return"
        => /\ Resolvable
           /\ made.ret = Len(instances)
           /\ instances[made.ret].class = Resolved
           /\ Falsy(TargetType) => instances[made.ret].class = DefaultType(made.defaultType)
           /\ ~Falsy(TargetType)
              => instances[made.ret].class = get(made.types, TargetType).ret

C12_Witness ==
  /\ made.op = "construct"
  /\ TargetType = GhostName
  /\ made.defaultType = Entity
  /\ made.outcome = ReferenceError
  /\ Len(instances) = 2
  /\ instances[1].class = Entity /\ instances[1].f["type"] = EntityNameCapital
  /\ instances[2].class = Entity /\ "type" \notin DOMAIN instances[2].f

\* The last call's object has a field that names a method of the class chosen.
Clashing ==
  /\ Resolving
  /\ Resolvable
  /\ \E prop \in DOMAIN FieldsOf(Target) : prop \in Methods(Resolved)

\* C13: if any field name of the descriptor names an existing method of the
\* freshly instantiated type, construct raises the property-clash error and
\* is all-or-nothing: no instance is returned, no field is merged and the
\* initialization hook is not invoked.
C13_ClashIsAllOrNothing ==
  Clashing
  => /\ made.outcome = ClashError
     /\ NothingMade
     /\ \A i \in 1..Len(made.steps) : made.steps[i] \notin {"assign", "init"}

C13_Witness ==
  /\ made.op = "construct"
  /\ made.outcome = ClashError
  /\ TargetType = EntityName
  /\ "draw" \in DOMAIN FieldsOf(Target)
  /\ Len(instances) = 1

\* The value a field holds, a nested object taken by what it holds.
Held(h, v) == IF v.t = "object" THEN <<"object", h[v.n]>> ELSE <<"value", v>>

\* The instance has a method named init.
ExposesHook == "init" \in Methods(Resolved)

\* C14: for a descriptor with no clashing field, construct returns an instance
\* of the resolved type carrying every descriptor field with the given value,
\* and the steps run in the order instantiate, clash check, merge, initialize,
\* the hook being invoked once, after the merge, only when the instance
\* exposes one.
C14_NoClashConstructs ==
  Resolving /\ Resolvable /\ ~Clashing
  => /\ made.outcome = "return"
     /\ made.ret = Len(instances)
     /\ made.ret > 0
     /\ instances[made.ret].class = Resolved
     /\ \A k \in DOMAIN FieldsOf(Target) :
          /\ k \in DOMAIN instances[made.ret].f
          /\ Held(heap, instances[made.ret].f[k]) = Held(made.heap, FieldsOf(Target)[k])
     /\ made.steps =
          IF ExposesHook
            THEN <<"resolve", "new", "clone", "check", "assign", "init">>
            ELSE <<"resolve", "new", "clone", "check", "assign">>

\* The nested objects of the stored descriptors.
StoredRefs ==
  UNION { Refs(FieldsOf(store[i].item)) : i \in 1..Len(store) }

\* The instance was made from an object structuredClone can copy.
FromCloneable(i) == Cloneable(Desc(instances[i].f))

Mutating == made.op \in {"setField", "setNested"}

\* C15: create(name, types) leaves both registries and the stored descriptor
\* unchanged and returns an instance no earlier call returned, sharing no
\* nested object with an earlier instance of a cloneable descriptor; and
\* changing an instance made from a cloneable descriptor, its nested object
\* included, changes neither a stored descriptor nor any other instance.
C15_CallerOwnsInstance ==
  /\ made.op = "create"
     => /\ types = made.types
        /\ store = made.store
        /\ \A r \in 1..Len(made.heap) : heap[r] = made.heap[r]
        /\ \A j \in 1..Len(made.instances) :
             j <= Len(instances) /\ instances[j] = made.instances[j]
        /\ made.outcome = "return"
           => /\ made.ret = Len(made.instances) + 1
              /\ made.ret = Len(instances)
              /\ FromCloneable(made.ret)
                 => /\ Refs(instances[made.ret].f) \cap StoredRefs = {}
                    /\ \A j \in 1..Len(made.instances) :
                         Refs(instances[made.ret].f) \cap Refs(instances[j].f) = {}
  /\ Mutating /\ FromCloneable(made.ret)
     => /\ types = made.types
        /\ store = made.store
        /\ \A r \in StoredRefs : heap[r] = made.heap[r]
        /\ \A j \in 1..Len(instances) :
             j # made.ret
             => /\ instances[j] = made.instances[j]
                /\ \A r \in Refs(instances[j].f) : heap[r] = made.heap[r]

C15_Witness ==
  /\ made.op = "setNested"
  /\ Len(instances) = 2
  /\ instances[1].class = Block /\ instances[2].class = Block
  /\ instances[1].f["type"] = BlockName /\ instances[2].f["type"] = BlockName
  /\ FromCloneable(made.ret)
  /\ heap[instances[made.ret].f["nested"].n] = 6
  /\ \E j \in 1..2 : heap[instances[j].f["nested"].n] = 5

(***************************************************************************)
(* The mod loader, under SpecMod, and Integrate.construct, under SpecFind. *)
(***************************************************************************)
\* What the definition file says of the i-th content of a call.
EntryName(call, i) == Coalesce(Field(call.entries[i].f, "name"), ItemName)

EntryRegistry(call, i) == Coalesce(Field(call.entries[i].f, "registry"), ContentName)

EntryFile(call, i) == call.dir.files[call.entries[i].f.path.s]

\* The name the i-th content is to be installed under.
InstalledName(call, i) ==
  IF call.flag
    THEN Str(Stringify(call.dir.manifest.f.name) \o <<58>> \o Stringify(EntryName(call, i)))
    ELSE EntryName(call, i)

\* The moddable registry was named when the call installed.
Known(call, i) == MapHas(call.registries, Key(EntryRegistry(call, i)))

KnownRegistry(call, i) == MapGet(call.registries, Key(EntryRegistry(call, i))).n

\* The name was taken when the call came to install its i-th content.
Taken(call, i) ==
  \/ MapHas(call.regs[call.adds[i].registry], Key(call.adds[i].name))
  \/ \E j \in 1..(i - 1) :
       /\ call.adds[j].registry = call.adds[i].registry
       /\ Key(call.adds[j].name) = Key(call.adds[i].name)

\* Integrate.add has loaded the mod and run addMod.
Installing(c) ==
  /\ calls[c].pc = "done"
  /\ calls[c].op = "add"
  /\ \E i \in 1..Len(calls[c].said) : calls[c].said[i] = LoadingSuccessful

\* C18: installing a loaded mod calls add once per content item, in the mod's
\* content order, on the moddable registry named by the item's registry field
\* (default "content"), under content.name when the prefix flag is false and
\* under mod.name + ":" + content.name when it is true; a failure (registry
\* not registered, duplicate name) ends the installation and is the outcome of
\* Integrate.add.
C18_InstallsInOrder ==
  \A c \in Callers :
    Installing(c)
    => LET call == calls[c]
           n == Len(call.adds)
       IN  /\ n <= Len(call.entries)
           /\ \A i \in 1..n :
                /\ Known(call, i)
                /\ call.adds[i].registry = KnownRegistry(call, i)
                /\ call.adds[i].name = InstalledName(call, i)
                /\ call.adds[i].item = EntryFile(call, i)
                /\ call.adds[i].outcome = IF Taken(call, i) THEN SyntaxError ELSE "return"
                /\ i < n => call.adds[i].outcome = "return"
           /\ IF n > 0 /\ call.adds[n].outcome # "return"
                THEN call.outcome = SyntaxError
              ELSE IF n < Len(call.entries)
                THEN ~Known(call, n + 1) /\ call.outcome = ReferenceError
              ELSE /\ call.outcome = "return"
                   /\ \A i \in 1..n :
                        get(regs[KnownRegistry(call, i)], InstalledName(call, i)).ret
                          = EntryFile(call, i)

C18_Witness ==
  /\ Installing(1)
  /\ calls[1].flag
  /\ calls[1].outcome = "return"
  /\ Len(calls[1].adds) = 2
  /\ calls[1].adds[1].name = Str(<<109, 58, 97>>)
  /\ calls[1].adds[1].registry # calls[1].adds[2].registry
  /\ MapHas(regs[calls[1].adds[1].registry], <<109, 58, 97>>)

\* Integrate.construct was last called with a string.
Searching == found.outcome # "none" /\ found.object.t = "string"

\* The i-th moddable registry, in the order they were added, has the name.
HasName(i) ==
  MapHas(found.regs[found.registries[i].item.n], toLowerCase(found.object.s))

\* C19: Integrate.construct called with a string searches the moddable
\* registries in the order they were added and constructs the descriptor
\* found in the first registry that has the name; when none has it the call
\* fails with a reference error and returns no instance.
C19_FirstRegistryWins ==
  Searching
  => IF \E i \in 1..Len(found.registries) : HasName(i)
       THEN LET first == CHOOSE i \in 1..Len(found.registries) :
                           HasName(i) /\ \A j \in 1..(i - 1) : ~HasName(j)
                desc == MapGet(found.regs[found.registries[first].item.n],
                               toLowerCase(found.object.s))
                r == constructIn(types, desc, found.defaultType, heap)
            IN  found.outcome = r.outcome /\ found.inst = r.inst
       ELSE found.outcome \in {NotDefined, ReferenceError} /\ found.inst = NoInstance

C19_Witness ==
  /\ Searching
  /\ found.outcome = "return"
  /\ Len(found.registries) = 2
  /\ found.registries[1].item = Reg(2)
  /\ HasName(1) /\ HasName(2)
  /\ found.regs[1] # found.regs[2]
  /\ found.inst.class = Block
  /\ MapGet(found.regs[1], toLowerCase(found.object.s)) = EntityFile

\* The definition file of a mod directory, and whether it is an array of
\* objects with paths.
DefinitionsOf(dir) == dir.files[dir.manifest.f.definitions.s]

EntryIsBad(entry) ==
  \/ entry.t # "object"
  \/ "f" \notin DOMAIN entry
  \/ "path" \notin DOMAIN FieldsOf(entry)

ContentIsBad(dir, entry) ==
  \/ dir.files[entry.f.path.s] = UNDEFINED
  \/ "type" \notin DOMAIN dir.files[entry.f.path.s].f

\* The stage at which loading the directory must fail, 0 when it must not.
FailingStage(dir) ==
  IF dir.manifest = UNDEFINED THEN 1
  ELSE IF {"name", "definitions"} \ DOMAIN dir.manifest.f # {} THEN 2
  ELSE IF DefinitionsOf(dir) = UNDEFINED \/ DefinitionsOf(dir).t # "array" THEN 3
  ELSE IF \E i \in 1..Len(DefinitionsOf(dir).a) : EntryIsBad(DefinitionsOf(dir).a[i]) THEN 3
  ELSE IF \E i \in 1..Len(DefinitionsOf(dir).a) : ContentIsBad(dir, DefinitionsOf(dir).a[i])
    THEN 4
  ELSE 0

Stages == <<"manifest", "details", "definitions", "content">>

\* C20: loading a mod goes through the stages manifest, details, definitions,
\* content in that order and is fail-fast: a missing or incomplete mod.json,
\* a missing or non-array definition file, an entry that is no object or has
\* no path, a missing content file or one without type make the load reject,
\* report MOD LOADING FAILED and return no Mod, with no moddable registry
\* modified; a successful load gives one content item per entry, in order.
C20_LoadIsStagedAndFailFast ==
  \A c \in Callers :
    LET call == calls[c]
        stage == FailingStage(call.dir)
    IN  /\ call.pc # "idle" => call.stages = SubSeq(Stages, 1, Len(call.stages))
        /\ call.pc \in {"manifest", "definitions", "content", "loaded"}
           => regs = call.regs /\ call.returned = NoMod /\ call.adds = <<>>
        /\ call.pc = "done" /\ stage # 0
           => /\ call.outcome # "return"
              /\ call.said = <<LoadingFailed>>
              /\ call.returned = NoMod
              /\ call.stages = SubSeq(Stages, 1, stage)
              /\ regs = call.regs
              /\ call.adds = <<>>
        /\ call.pc = "done" /\ stage = 0
           => /\ call.said[1] = LoadingSuccessful
              /\ call.stages = Stages
              /\ Len(call.mod.content) = Len(DefinitionsOf(call.dir).a)
              /\ call.op = "load"
                 => /\ call.outcome = "return"
                    /\ call.returned = call.mod
                    /\ regs = call.regs
                    /\ \A i \in 1..Len(call.mod.content) :
                         call.mod.content[i] =
                           Content(EntryRegistry(call, i), EntryName(call, i),
                                   EntryFile(call, i))

C20_Witness ==
  /\ calls[1].pc = "done"
  /\ calls[1].op = "add"
  /\ calls[1].outcome = LoadSyntaxError
  /\ Len(calls[1].mod.content) = 1
  /\ calls[1].stages = Stages
  /\ regs[1] # <<>>

(***************************************************************************)
(* rename when its add fails, under Spec.                                  *)
(***************************************************************************)
\* The last call was rename(n, n2) for a name n the registry had, and it
\* either threw the duplicate-name error or was given an empty name n2.
RenameFailed ==
  /\ last.op = "rename"
  /\ CanStringify(last.name)
  /\ MapHas(prev, Key(last.name))
  /\ last.outcome = SyntaxError \/ Falsy(last.arg)

\* C21: rename is atomic on failure: if rename(n, n2) raises because n2
\* already exists, or returns without installing n2 because n2 is empty, the
\* registry is left unchanged and get(n) still returns the original value.
C21_RenameIsAtomic ==
  RenameFailed
  => /\ content = prev
     /\ get(content, last.name).outcome = "return"
     /\ get(content, last.name).ret = MapGet(prev, Key(last.name))

(***************************************************************************)
(* A failed installation, under SpecMod.                                   *)
(***************************************************************************)
\* Integrate.add of caller c has rejected in addMod.
InstallFailed(c) == Installing(c) /\ calls[c].outcome # "return"

\* C22: installing a mod is all-or-nothing: if installing any content item
\* of a mod fails (duplicate name or unknown registry), none of that mod's
\* content items remain in any moddable registry after Integrate.add rejects.
C22_InstallIsAllOrNothing ==
  \A c \in Callers :
    InstallFailed(c)
    => /\ regs = calls[c].regs
       /\ \A i \in 1..Len(calls[c].adds) :
            calls[c].adds[i].outcome = "return"
            => ~MapHas(regs[calls[c].adds[i].registry], Key(calls[c].adds[i].name))

(***************************************************************************)
(* Two calls of Integrate.add at once, under SpecConcurrent.               *)
(***************************************************************************)
\* The Mod a call loaded, as loadMod returned it.
LoadedMod(call) ==
  [name |-> call.dir.manifest.f.name,
   content |-> [i \in 1..Len(call.entries) |->
                  Content(EntryRegistry(call, i), EntryName(call, i), EntryFile(call, i))]]

\* The installation of x and then that of y, each with the prefix flag and
\* the moddable registries of the moment it started, from the contents the
\* registries had when x started.
SerialFirst(x) ==
  addMod(calls[x].registries, calls[x].at, calls[x].flag, LoadedMod(calls[x]))

SerialSecond(x, y) ==
  addMod(calls[y].registries, SerialFirst(x).regs, calls[y].flag, LoadedMod(calls[y]))

\* C23: when two Integrate.add calls for different mods run concurrently,
\* their fetch stages interleave at every await, but no installation is ever
\* seen half done by the other call, every item is installed under the name
\* the prefix flag of the moment the installation started gives it, and once
\* both have installed the moddable registries hold what one of the two
\* serial orders of the installations leaves.
C23_InstallationsSerialise ==
  /\ \A c \in Callers :
       /\ calls[c].pc \in {"idle", "manifest", "definitions", "content", "loaded", "done"}
       /\ calls[c].pc # "done" => calls[c].adds = <<>>
       /\ Installing(c)
          => \A i \in 1..Len(calls[c].adds) :
               calls[c].adds[i].name = InstalledName(calls[c], i)
  /\ Installing(1) /\ Installing(2)
     => \E x \in Callers :
          \E y \in Callers \ {x} :
            /\ calls[x].outcome = SerialFirst(x).outcome
            /\ calls[y].at = SerialFirst(x).regs
            /\ calls[y].outcome = SerialSecond(x, y).outcome
            /\ regs = SerialSecond(x, y).regs

C23_Witness ==
  /\ Installing(1) /\ Installing(2)
  /\ calls[1].regs = calls[2].regs
  /\ calls[1].flag # calls[2].flag
  /\ calls[1].outcome = "return" /\ calls[2].outcome = "return"
  /\ Len(calls[1].adds) = 2 /\ Len(calls[2].adds) = 2
  /\ calls[1].at # calls[1].regs
  /\ regs # calls[1].at

=============================================================================
